---- MODULE Spec2Model ----
(***************************************************************************)
(* Model of sympy_relational_tools.py (both_sides, invert_ineq and the     *)
(* inequality transformers) and of sympy_equation_tools.py (both_sides).   *)
(*                                                                         *)
(* Every entry point is a pure function, so the state machine is: idle,    *)
(* then one call with inputs drawn from bounded sets, then done.  The      *)
(* state keeps the inputs of the call, what it returned or raised, and the *)
(* ordered log of the queries it made (assumption attributes, structural   *)
(* zero tests, solveset calls, look-ups in _inverse_relations).            *)
(*                                                                         *)
(* sympy itself is outside the repository.  Expressions are terms; a term  *)
(* over the variable x has an integer value at each sample point, and      *)
(* solveset over an interval is the set of sample points of the interval   *)
(* at which the predicate holds.                                           *)
(***************************************************************************)
EXTENDS Integers, Sequences, FiniteSets, TLC

\* Sample points of the real line are the integers -MaxAbs .. MaxAbs.
MaxAbs == 2
Points == (0 - MaxAbs)..MaxAbs

-----------------------------------------------------------------------------
(* Relation kinds and the direction table *)

Eq == "Eq"
Ge == "Ge"
Le == "Le"
Gt == "Gt"
Lt == "Lt"
Kinds == {Eq, Ge, Le, Gt, Lt}
IneqKinds == {Ge, Le, Gt, Lt}

inverse_relations_swapped == (Ge :> Le) @@ (Le :> Ge) @@ (Gt :> Le) @@ (Lt :> Gt)

inverse_relations == (Ge :> Le) @@ (Le :> Ge) @@ (Gt :> Lt) @@ (Lt :> Gt)

-----------------------------------------------------------------------------
(* Expressions *)

Atom(name) == [op |-> name, args |-> <<>>]
Zero == Atom("0")
MinusOne == Atom("-1")
MinusTwo == Atom("-2")
NoneArg == Atom("None")
NoExpr == Atom("-")
SymP == Atom("p")
SymQ == Atom("q")
SymN == Atom("n")
SymX == Atom("x")

\* p, q are symbols declared positive, n a symbol declared negative, x a
\* real symbol (the variable).
Sides == {Zero, SymP, SymQ, SymN, SymX}
Args == Sides \cup {MinusOne, MinusTwo, NoneArg}
Numbers == {Zero, MinusOne, MinusTwo}

\* Canonical order of the arguments of a commutative term.
Rank(e) ==
  CASE e = MinusTwo -> 0
    [] e = MinusOne -> 1
    [] e = Zero -> 2
    [] e = SymN -> 3
    [] e = SymP -> 4
    [] e = SymQ -> 5
    [] e = SymX -> 6
    [] OTHER -> 7

Commute(op, a, b) ==
  IF Rank(a) <= Rank(b) THEN [op |-> op, args |-> <<a, b>>]
  ELSE [op |-> op, args |-> <<b, a>>]

\* a*b, with 0*b = 0
MulE(a, b) == IF a = Zero \/ b = Zero THEN Zero ELSE Commute("Mul", a, b)
\* a+b, with 0+b = b
AddE(a, b) == IF a = Zero THEN b ELSE IF b = Zero THEN a ELSE Commute("Add", a, b)
\* a**b ; 1/a is a**(-1)
PowE(a, b) == [op |-> "Pow", args |-> <<a, b>>]
\* -a is (-1)*a
NegE(a) == MulE(MinusOne, a)
\* function(e) and function(e, argument) for the other functions
App1(f, a) == [op |-> f, args |-> <<a>>]
App2(f, a, b) == [op |-> f, args |-> <<a, b>>]

\* Value of an atom at a sample point of x.
ValueAt(e, pt) ==
  CASE e = Zero -> 0
    [] e = MinusOne -> 0 - 1
    [] e = MinusTwo -> 0 - 2
    [] e = SymP -> 1
    [] e = SymQ -> 2
    [] e = SymN -> 0 - 1
    [] e = SymX -> pt

\* Assumption attributes: "True", "False" or "None" (not known).
is_positive(e) ==
  IF e \in {SymP, SymQ} THEN "True"
  ELSE IF e \in {Zero, MinusOne, MinusTwo, SymN} THEN "False"
  ELSE "None"

is_negative(e) ==
  IF e \in {SymN, MinusOne, MinusTwo} THEN "True"
  ELSE IF e \in {Zero, SymP, SymQ} THEN "False"
  ELSE "None"

-----------------------------------------------------------------------------
(* Relations, intervals, solveset *)

Rel(k, l, r) == [kind |-> k, lhs |-> l, rhs |-> r]
BoolVal(b) == [kind |-> IF b THEN "true" ELSE "false", lhs |-> NoExpr, rhs |-> NoExpr]
NoVal == [kind |-> "-", lhs |-> NoExpr, rhs |-> NoExpr]

Holds(k, a, b) ==
  CASE k = Eq -> a = b
    [] k = Ge -> a >= b
    [] k = Le -> a <= b
    [] k = Gt -> a > b
    [] k = Lt -> a < b

\* The relation classes Eq, Ge, Le, Gt, Lt called with the default
\* evaluate=True: a relation between two numbers, or between two identical
\* expressions, evaluates to true or false.
RelEval(k, l, r) ==
  IF l \in Numbers /\ r \in Numbers THEN BoolVal(Holds(k, ValueAt(l, 0), ValueAt(r, 0)))
  ELSE IF l = r THEN BoolVal(k \in {Eq, Ge, Le})
  ELSE Rel(k, l, r)

NoneInterval == [none |-> TRUE, pts |-> {}]
Interval(lo, hi) == [none |-> FALSE, pts |-> lo..hi]
Intervals == {Interval(lo, hi) : lo \in Points, hi \in Points}

NoneVar == "None"
Variables == {NoneVar, "x"}

\* solveset(e > 0, variable, domain=interval) and the like.  With
\* variable=None solveset takes the only free symbol of the predicate.
solveset_gt0(e, interval) == {pt \in interval.pts : ValueAt(e, pt) > 0}
solveset_lt0(e, interval) == {pt \in interval.pts : ValueAt(e, pt) < 0}
solveset_eq0(e, interval) == {pt \in interval.pts : ValueAt(e, pt) = 0}

-----------------------------------------------------------------------------
(* Results and the query log *)

Ev(e, on) == [ev |-> e, on |-> on]
EmptyDict == [key \in {} |-> NoVal]
DictSet(d, key, v) == [x \in (DOMAIN d) \cup {key} |-> IF x = key THEN v ELSE d[x]]

Return(v, lg) == [ret |-> [tag |-> "relation", val |-> v, cases |-> EmptyDict, err |-> "-"], log |-> lg]
ReturnCases(d, lg) == [ret |-> [tag |-> "cases", val |-> NoVal, cases |-> d, err |-> "-"], log |-> lg]
Raise(e, lg) == [ret |-> [tag |-> "raise", val |-> NoVal, cases |-> EmptyDict, err |-> e], log |-> lg]
NoRet == [tag |-> "-", val |-> NoVal, cases |-> EmptyDict, err |-> "-"]

-----------------------------------------------------------------------------
(* sympy_relational_tools.py *)

\* _inverse_relations[k] is a KeyError when k is not in the table.
InTable(k) == k \in DOMAIN inverse_relations
KeyError(lg) == Raise("InvalidDirectionLookup", lg)

invert_ineq_same_kind(ineq) ==
  Return(Rel(ineq.kind, NegE(ineq.lhs), NegE(ineq.rhs)), <<>>)

invert_ineq(ineq) ==
  LET lg == <<Ev("table", ineq.kind)>>
  IN IF InTable(ineq.kind)
     THEN Return(Rel(inverse_relations[ineq.kind], NegE(ineq.lhs), NegE(ineq.rhs)), lg)
     ELSE KeyError(lg)

both_sides_add_ineq(relation, argument) ==
  Return(Rel(relation.kind, AddE(relation.lhs, argument), AddE(relation.rhs, argument)), <<>>)

both_sides_mul_ineq(relation, argument, interval, variable) ==
  LET k == relation.kind
      scaled(kind) == Rel(kind, MulE(relation.lhs, argument), MulE(relation.rhs, argument))
  IN
  IF interval.none THEN
    LET l1 == <<Ev("is_positive", "argument")>>
        l2 == Append(l1, Ev("is_negative", "argument"))
        l3 == Append(l2, Ev("table", k))
        l4 == Append(l2, Ev("eq_zero", "argument"))
    IN
    IF is_positive(argument) = "True" THEN Return(scaled(k), l1)
    ELSE IF is_negative(argument) = "True" THEN
      (IF InTable(k) THEN Return(scaled(inverse_relations[k]), l3) ELSE KeyError(l3))
    ELSE IF argument = Zero THEN Return(RelEval(k, Zero, Zero), l4)
    ELSE Raise("SignUndetermined", l4)
  ELSE
    IF variable = NoneVar THEN Raise("MissingVariable", <<>>)
    ELSE
      LET positive_interval == solveset_gt0(argument, interval)
          negative_interval == solveset_lt0(argument, interval)
          zeros == solveset_eq0(argument, interval)
          l3 == <<Ev("solveset", "argument>0"), Ev("solveset", "argument<0"),
                  Ev("solveset", "argument=0")>>
          l4 == Append(l3, Ev("table", k))
          ans_if_positive == scaled(k)
          ans_if_zero == RelEval(k, Zero, Zero)
      IN IF InTable(k)
         THEN ReturnCases(DictSet(DictSet(DictSet(EmptyDict,
                positive_interval, ans_if_positive),
                negative_interval, scaled(inverse_relations[k])),
                zeros, ans_if_zero), l4)
         ELSE KeyError(l4)

\* (e1.a1 == True) and (e2.a2 == True): the second attribute is read only
\* when the first one is True.
Attr(e, a) == IF a = "is_positive" THEN is_positive(e) ELSE is_negative(e)
both_signs(relation, a1, a2) ==
  LET first == Attr(relation.lhs, a1) = "True"
  IN [val |-> first /\ Attr(relation.rhs, a2) = "True",
      log |-> <<Ev(a1, "lhs")>> \o (IF first THEN <<Ev(a2, "rhs")>> ELSE <<>>)]

pow_global_assumptions(relation, variable, lg) ==
  LET k == relation.kind
      recip(kind) == Rel(kind, PowE(relation.lhs, MinusOne), PowE(relation.rhs, MinusOne))
      c1 == both_signs(relation, "is_positive", "is_positive")
      c2 == both_signs(relation, "is_positive", "is_negative")
      c3 == both_signs(relation, "is_negative", "is_positive")
      c4 == both_signs(relation, "is_negative", "is_negative")
      l1 == lg \o c1.log
      l2 == l1 \o c2.log
      l3 == l2 \o c3.log
      l4 == l3 \o c4.log
      l5 == Append(l4, Ev("table", k))
      l6 == Append(l4, Ev("eq_zero", "lhs"))
      l7 == Append(l6, Ev("eq_zero", "rhs"))
  IN
  IF variable = NoneVar THEN Raise("MissingVariable", lg)
  ELSE IF c1.val THEN Return(recip(k), l1)
  ELSE IF c2.val THEN Return(recip(k), l2)
  ELSE IF c3.val THEN Return(recip(k), l3)
  ELSE IF c4.val THEN
    (IF InTable(k) THEN Return(recip(inverse_relations[k]), l5) ELSE KeyError(l5))
  ELSE IF relation.lhs = Zero THEN Raise("DivisionByZero", l6)
  ELSE IF relation.rhs = Zero THEN Raise("DivisionByZero", l7)
  ELSE Raise("SignUndetermined", l7)

pow_result_pp_difsigns(nn_interval, pp_interval, pn_interval, np_interval, eqsigns, difsigns) ==
  LET r1 == IF nn_interval # {} THEN DictSet(EmptyDict, nn_interval, eqsigns) ELSE EmptyDict
      r2 == IF pp_interval # {} THEN DictSet(r1, pp_interval, difsigns) ELSE r1
      r3 == IF pn_interval # {} THEN DictSet(r2, pn_interval, difsigns) ELSE r2
      r4 == IF np_interval # {} THEN DictSet(r3, np_interval, difsigns) ELSE r3
  IN r4

pow_result(nn_interval, pp_interval, pn_interval, np_interval, eqsigns, difsigns) ==
  LET r1 == IF nn_interval # {} THEN DictSet(EmptyDict, nn_interval, eqsigns) ELSE EmptyDict
      r2 == IF pp_interval # {} THEN DictSet(r1, pp_interval, eqsigns) ELSE r1
      r3 == IF pn_interval # {} THEN DictSet(r2, pn_interval, difsigns) ELSE r2
      r4 == IF np_interval # {} THEN DictSet(r3, np_interval, difsigns) ELSE r3
  IN r4

pow_solveset(relation, interval, variable, lg) ==
  LET k == relation.kind
      recip(kind) == Rel(kind, PowE(relation.lhs, MinusOne), PowE(relation.rhs, MinusOne))
      lhs_positive_interval == solveset_gt0(relation.lhs, interval)
      rhs_positive_interval == solveset_gt0(relation.rhs, interval)
      lhs_negative_interval == solveset_lt0(relation.lhs, interval)
      rhs_negative_interval == solveset_lt0(relation.rhs, interval)
      l1 == lg \o <<Ev("solveset", "lhs>0"), Ev("solveset", "rhs>0"),
                    Ev("solveset", "lhs<0"), Ev("solveset", "rhs<0")>>
      l2 == Append(l1, Ev("eq_zero", "lhs"))
      l3 == Append(l2, Ev("eq_zero", "rhs"))
      l4 == Append(l3, Ev("table", k))
      pp_interval == lhs_positive_interval \cap rhs_positive_interval
      nn_interval == lhs_negative_interval \cap rhs_negative_interval
      pn_interval == lhs_positive_interval \cap rhs_negative_interval
      np_interval == lhs_negative_interval \cap rhs_positive_interval
  IN
  IF relation.lhs = Zero THEN Raise("DivisionByZero", l2)
  ELSE IF relation.rhs = Zero THEN Raise("DivisionByZero", l3)
  ELSE IF InTable(k)
    THEN ReturnCases(pow_result(nn_interval, pp_interval, pn_interval, np_interval,
                                recip(inverse_relations[k]), recip(k)), l4)
  ELSE KeyError(l4)

both_sides_pow_ineq(relation, argument, interval, variable) ==
  LET lg == <<Ev("exponent", "argument")>>
  IN
  IF argument = MinusOne THEN
    IF interval.none THEN pow_global_assumptions(relation, variable, lg)
    ELSE pow_solveset(relation, interval, variable, lg)
  ELSE Raise("NotImplemented", lg)

rewrite_functions_short == {"factor", "simplify", "collect", "expand", "together"}

rewrite_functions == {"factor", "simplify", "collect", "expand", "together", "apart"}

\* "diff" stands for any function that is not in the dispatcher's lists.
Functions == {"Add", "Mul", "Pow", "diff"} \cup {"factor", "simplify", "collect", "expand", "together", "apart"}

\* function(e, argument)
Apply(function, e, argument) ==
  CASE function = "Add" -> AddE(e, argument)
    [] function = "Mul" -> MulE(e, argument)
    [] function = "Pow" -> PowE(e, argument)
    [] OTHER -> App2(function, e, argument)

both_sides_eq_lhs_twice(relation, function, argument) ==
  Return(RelEval(Eq, Apply(function, relation.lhs, argument),
                     Apply(function, relation.lhs, argument)), <<>>)

both_sides_eq(relation, function, argument) ==
  Return(RelEval(Eq, Apply(function, relation.lhs, argument),
                     Apply(function, relation.rhs, argument)), <<>>)

both_sides(relation, function, argument, interval, variable) ==
  IF relation.kind = Eq THEN both_sides_eq(relation, function, argument)
  ELSE IF function = "Add" THEN both_sides_add_ineq(relation, argument)
  ELSE IF function = "Mul" THEN both_sides_mul_ineq(relation, argument, interval, variable)
  ELSE IF function = "Pow" THEN both_sides_pow_ineq(relation, argument, interval, variable)
  ELSE IF function \in rewrite_functions
    THEN Return(Rel(relation.kind, App1(function, relation.lhs), App1(function, relation.rhs)), <<>>)
  ELSE Raise("NotImplemented", <<>>)

-----------------------------------------------------------------------------
(* sympy_equation_tools.py *)

equation_both_sides(equation, function, argument) ==
  Return(RelEval(Eq, Apply(function, equation.lhs, argument),
                     Apply(function, equation.rhs, argument)), <<>>)

-----------------------------------------------------------------------------
(* The state machine *)

VARIABLES pc, call, ret, log
vars == <<pc, call, ret, log>>

Call(op, relation, function, argument, interval, variable) ==
  [op |-> op, relation |-> relation, function |-> function, argument |-> argument,
   interval |-> interval, variable |-> variable]
NoCall == Call("-", NoVal, "-", NoExpr, NoneInterval, NoneVar)

Relations == {Rel(k, l, r) : k \in Kinds, l \in Sides, r \in Sides}

\* argument=None is for the functions of one argument; the arithmetic
\* functions are called with an expression.
WellTyped(function, argument) ==
  argument = NoneArg => function \notin {"Add", "Mul", "Pow"}

Init ==
  /\ pc = "idle"
  /\ call = NoCall
  /\ ret = NoRet
  /\ log = <<>>

BothSides ==
  /\ pc = "idle"
  /\ \E relation \in Relations, function \in Functions, argument \in Args,
        interval \in {NoneInterval} \cup Intervals, variable \in Variables :
       /\ WellTyped(function, argument)
       /\ LET r == both_sides(relation, function, argument, interval, variable)
          IN /\ call' = Call("both_sides", relation, function, argument, interval, variable)
             /\ ret' = r.ret
             /\ log' = r.log
  /\ pc' = "done"

InvertIneq ==
  /\ pc = "idle"
  /\ \E ineq \in Relations :
       LET r == invert_ineq(ineq)
       IN /\ call' = Call("invert_ineq", ineq, "-", NoExpr, NoneInterval, NoneVar)
          /\ ret' = r.ret
          /\ log' = r.log
  /\ pc' = "done"

EquationBothSides ==
  /\ pc = "idle"
  /\ \E l \in Sides, r \in Sides, function \in Functions, argument \in Args :
       /\ WellTyped(function, argument)
       /\ LET res == equation_both_sides(Rel(Eq, l, r), function, argument)
          IN /\ call' = Call("equation_both_sides", Rel(Eq, l, r), function, argument,
                             NoneInterval, NoneVar)
             /\ ret' = res.ret
             /\ log' = res.log
  /\ pc' = "done"

Next == BothSides \/ InvertIneq \/ EquationBothSides

Spec == Init /\ [][Next]_vars

-----------------------------------------------------------------------------
(* Vocabulary of the properties *)

\* The direction table as the specification gives it: Ge <-> Le, Gt <-> Lt.
Inverted(k) ==
  CASE k = Ge -> Le
    [] k = Le -> Ge
    [] k = Gt -> Lt
    [] k = Lt -> Gt

Dispatched == pc = "done" /\ call.op = "both_sides"
OnInequality == Dispatched /\ call.relation.kind \in IneqKinds
Raised(e) == ret.tag = "raise" /\ ret.err = e
Queried(evs) == \E i \in 1..Len(log) : log[i].ev \in evs
SignQueries == {"is_positive", "is_negative"}
ReciprocalCall == OnInequality /\ call.function = "Pow" /\ call.argument = MinusOne
ScaleCall == OnInequality /\ call.function = "Mul"
Reciprocals(k) ==
  Rel(k, PowE(call.relation.lhs, MinusOne), PowE(call.relation.rhs, MinusOne))
Scaled(k) ==
  Rel(k, MulE(call.relation.lhs, call.argument), MulE(call.relation.rhs, call.argument))
Positive(e) == is_positive(e) = "True"
Negative(e) == is_negative(e) = "True"
Disjoint(keys) == \A k1 \in keys, k2 \in keys : k1 # k2 => k1 \cap k2 = {}

-----------------------------------------------------------------------------
\* C1: reciprocal without a domain: a returned relation has the sides 1/lhs
\* and 1/rhs, the inverted kind when both sides are provably of the same
\* sign, and the original kind when they are provably of opposite signs.
C1_ReciprocalGlobalKind ==
  (ReciprocalCall /\ call.interval.none /\ ret.tag = "relation") =>
    LET k == call.relation.kind
        l == call.relation.lhs
        r == call.relation.rhs
    IN /\ ret.val.lhs = PowE(l, MinusOne)
       /\ ret.val.rhs = PowE(r, MinusOne)
       /\ ((Positive(l) /\ Positive(r)) \/ (Negative(l) /\ Negative(r)))
            => ret.val.kind = Inverted(k)
       /\ ((Positive(l) /\ Negative(r)) \/ (Negative(l) /\ Positive(r)))
            => ret.val.kind = k

\* C2: reciprocal of an inequality with a side that is the literal zero
\* raises DivisionByZero, whatever the domain and the variable are, and no
\* sign query and no solveset query comes before it.
C2_ZeroGuardFirst ==
  (ReciprocalCall /\ (call.relation.lhs = Zero \/ call.relation.rhs = Zero)) =>
    /\ Raised("DivisionByZero")
    /\ ~Queried(SignQueries \cup {"solveset"})

\* C3: scale without a domain: the same kind for a provably positive
\* argument, the inverted kind for a provably negative one, both sides
\* multiplied by the argument; Eq(0,0) for the argument zero.
C3_ScaleSignDispatch ==
  (ScaleCall /\ call.interval.none) =>
    /\ Positive(call.argument) =>
         (ret.tag = "relation" /\ ret.val = Scaled(call.relation.kind))
    /\ Negative(call.argument) =>
         (ret.tag = "relation" /\ ret.val = Scaled(Inverted(call.relation.kind)))
    /\ call.argument = Zero =>
         (ret.tag = "relation" /\ ret.val = RelEval(Eq, Zero, Zero))

\* C4: scale with a domain and a variable: at most three cases, none keyed by
\* the empty set, keys pairwise disjoint, and each non-empty solved subset
\* (argument > 0, < 0, = 0) is a key, mapped to the same-kind scaled
\* relation, the inverted-kind scaled relation and Eq(0,0) respectively.
C4_ScaleCases ==
  (ScaleCall /\ ~call.interval.none /\ call.variable # NoneVar) =>
    LET keys == DOMAIN ret.cases
        pos == solveset_gt0(call.argument, call.interval)
        neg == solveset_lt0(call.argument, call.interval)
        zer == solveset_eq0(call.argument, call.interval)
    IN /\ ret.tag = "cases"
       /\ Cardinality(keys) <= 3
       /\ {} \notin keys
       /\ Disjoint(keys)
       /\ keys \subseteq {pos, neg, zer}
       /\ pos # {} => (pos \in keys /\ ret.cases[pos] = Scaled(call.relation.kind))
       /\ neg # {} => (neg \in keys /\ ret.cases[neg] = Scaled(Inverted(call.relation.kind)))
       /\ zer # {} => (zer \in keys /\ ret.cases[zer] = RelEval(Eq, Zero, Zero))

\* C5: reciprocal with a domain and a variable, no side the literal zero:
\* every key is a non-empty subset of the domain, the keys are pairwise
\* disjoint, a key of the inverted-kind relation has lhs and rhs of the same
\* strict sign at each of its points, a key of the same-kind relation has
\* them of opposite strict signs, and every point of the domain where both
\* sides are nonzero lies in exactly one key.
C5Case ==
  /\ ReciprocalCall
  /\ ~call.interval.none
  /\ call.variable # NoneVar
  /\ call.relation.lhs # Zero
  /\ call.relation.rhs # Zero
SignProduct(pt) == ValueAt(call.relation.lhs, pt) * ValueAt(call.relation.rhs, pt)
C5_ReciprocalCases ==
  C5Case =>
    LET keys == DOMAIN ret.cases
        inv == Reciprocals(Inverted(call.relation.kind))
        same == Reciprocals(call.relation.kind)
    IN /\ ret.tag = "cases"
       /\ \A key \in keys :
            /\ key # {}
            /\ key \subseteq call.interval.pts
            /\ ret.cases[key] \in {inv, same}
            /\ ret.cases[key] = inv => \A pt \in key : SignProduct(pt) > 0
            /\ ret.cases[key] = same => \A pt \in key : SignProduct(pt) < 0
       /\ Disjoint(keys)
       /\ \A pt \in call.interval.pts :
            SignProduct(pt) # 0 => Cardinality({key \in keys : pt \in key}) = 1
C5_Witness ==
  /\ C5Case
  /\ ret.tag = "cases"
  /\ \E k1 \in DOMAIN ret.cases, k2 \in DOMAIN ret.cases :
       /\ ret.cases[k1] = Reciprocals(Inverted(call.relation.kind))
       /\ ret.cases[k2] = Reciprocals(call.relation.kind)

\* C6: MissingVariable is raised only for a domain without a variable: scale
\* with a domain and no variable raises it before any solveset query, and no
\* call without a domain raises it.
C6_MissingVariableOnlyWithDomain ==
  Dispatched =>
    /\ Raised("MissingVariable") => (~call.interval.none /\ call.variable = NoneVar)
    /\ (ScaleCall /\ ~call.interval.none /\ call.variable = NoneVar) =>
         (Raised("MissingVariable") /\ ~Queried({"solveset"}))

\* C7: on an equality both_sides returns Eq(fn(lhs,arg), fn(rhs,arg)) for
\* every function, domain and variable, makes no query and raises nothing.
EqualityCall ==
  /\ pc = "done"
  /\ call.op \in {"both_sides", "equation_both_sides"}
  /\ call.relation.kind = Eq
C7_EqualityPath ==
  EqualityCall =>
    /\ ret.tag = "relation"
    /\ ret.val = RelEval(Eq, Apply(call.function, call.relation.lhs, call.argument),
                             Apply(call.function, call.relation.rhs, call.argument))
    /\ log = <<>>
C7_Witness ==
  /\ EqualityCall
  /\ call.op = "both_sides"
  /\ call.function = "Pow"
  /\ call.argument = MinusTwo
  /\ call.relation.lhs = Zero
  /\ ~call.interval.none
  /\ call.variable = NoneVar
  /\ ret.val = Rel(Eq, PowE(Zero, MinusTwo), PowE(SymX, MinusTwo))

\* C8 (as stated): invert_ineq on an inequality returns the inverted kind
\* with left side -rhs and right side -lhs.
InvertCall == pc = "done" /\ call.op = "invert_ineq" /\ call.relation.kind \in IneqKinds
C8_InvertSwapsSides ==
  InvertCall =>
    /\ ret.tag = "relation"
    /\ ret.val = Rel(Inverted(call.relation.kind), NegE(call.relation.rhs), NegE(call.relation.lhs))

\* C8 (amended): invert_ineq on an inequality returns the inverted kind
\* with left side -lhs and right side -rhs.
C8_InvertNegatesSides ==
  InvertCall =>
    /\ ret.tag = "relation"
    /\ ret.val = Rel(Inverted(call.relation.kind), NegE(call.relation.lhs), NegE(call.relation.rhs))
C8_Witness ==
  /\ InvertCall
  /\ call.relation = Rel(Ge, SymX, SymP)
  /\ ret.val = Rel(Le, NegE(SymX), NegE(SymP))

\* C9: on an inequality both_sides raises NotImplemented exactly when the
\* function is outside Add, Mul, Pow and the rewrite list, or is Pow with an
\* exponent other than -1; in the Pow case nothing is queried before it (no
\* zero test, no sign query, no solveset), whatever the sides, the domain
\* and the variable are.
Supported == {"Add", "Mul", "Pow", "factor", "simplify", "collect", "expand", "together", "apart"}
BadExponent == call.function = "Pow" /\ call.argument # MinusOne
C9_NotImplemented ==
  OnInequality =>
    /\ Raised("NotImplemented") <=> (call.function \notin Supported \/ BadExponent)
    /\ BadExponent => ~Queried(SignQueries \cup {"solveset", "eq_zero", "table"})
C9_Witness ==
  /\ OnInequality
  /\ BadExponent
  /\ call.relation.lhs = Zero
  /\ ~call.interval.none
  /\ call.variable = NoneVar
  /\ Raised("NotImplemented")

\* C10: no call of both_sides looks Eq up in the direction table, and on the
\* kinds that are looked up the table is an involution.
C10_NoEqLookup ==
  Dispatched =>
    /\ ~Raised("InvalidDirectionLookup")
    /\ \A i \in 1..Len(log) :
         log[i].ev = "table" =>
           /\ log[i].on # Eq
           /\ log[i].on \in DOMAIN inverse_relations
           /\ inverse_relations[log[i].on] \in DOMAIN inverse_relations
           /\ inverse_relations[inverse_relations[log[i].on]] = log[i].on
C10_Witness ==
  /\ Dispatched
  /\ \E i \in 1..Len(log) : log[i].ev = "table" /\ log[i].on = Gt
  /\ ret.tag # "raise"

====
